---- MODULE Spec2Model ----
(***************************************************************************)
(* Retro Snake Game (src/snake_game.py): the game-state core (Snake, Food, *)
(* Game.handle_events / update / reset_game) and the frame loop Game.run.  *)
(*                                                                         *)
(* The playfield is scaled down: the source's grid is 40 x 30 cells; the   *)
(* model's is GRID_WIDTH x GRID_HEIGHT cells, small enough to explore      *)
(* every snake, including one that fills the board.                        *)
(***************************************************************************)
EXTENDS Integers, Sequences, FiniteSets

VARIABLES
    body,          \* Snake.body: sequence of cells, tail first, head last
    direction,     \* Snake.direction
    grow_pending,  \* Snake.grow_pending
    food,          \* Food.position
    score,         \* Game.score
    high_score,    \* Game.high_score
    game_over,     \* Game.game_over  (phase: FALSE = RUNNING, TRUE = GAME_OVER)
    running,       \* Game.running
    pc,            \* position of Game.run inside its loop
    outcome,       \* the branch the last executed step took (a log, read by no step)
    idle_ticks     \* under SpecIdle: the RUNNING ticks taken since a direction
                   \* request was last handled (a count, read by no step)

vars == <<body, direction, grow_pending, food, score, high_score, game_over,
          running, pc, outcome, idle_ticks>>

\* The game state of the core (everything but the loop's own bookkeeping).
gameState == <<body, direction, grow_pending, food, score, high_score, game_over>>

----------------------------------------------------------------------------
\* Bounds of the model.

\* Columns of the playfield (the source: WINDOW_WIDTH // GRID_SIZE = 40).
GRID_WIDTH == 4

\* Rows of the playfield (the source: WINDOW_HEIGHT // GRID_SIZE = 30).
GRID_HEIGHT == 2

\* Food items one run may eat under Spec (the source has no such limit: Spec stops
\* a run that would eat one more; SpecFull has no limit).
MaxFood == 2

----------------------------------------------------------------------------
\* Program constants.

INITIAL_SNAKE_LENGTH == 3

FOOD_POINTS == 10

----------------------------------------------------------------------------
\* Direction

Directions == {"UP", "DOWN", "LEFT", "RIGHT"}

\* Unit vectors with the y axis pointing up.
DeltaYUp(d) ==
    CASE d = "UP"    -> <<0, 1>>
      [] d = "DOWN"  -> <<0, -1>>
      [] d = "LEFT"  -> <<-1, 0>>
      [] d = "RIGHT" -> <<1, 0>>

\* Direction.value: the unit vector of a direction.
Delta(d) ==
    CASE d = "UP"    -> <<0, -1>>
      [] d = "DOWN"  -> <<0, 1>>
      [] d = "LEFT"  -> <<-1, 0>>
      [] d = "RIGHT" -> <<1, 0>>

\* opposite_directions of Snake.change_direction.
Opposite(d) ==
    CASE d = "UP"    -> "DOWN"
      [] d = "DOWN"  -> "UP"
      [] d = "LEFT"  -> "RIGHT"
      [] d = "RIGHT" -> "LEFT"

----------------------------------------------------------------------------
\* Grid

\* The cells random.randint(0, GRID_WIDTH - 1) x random.randint(0, GRID_HEIGHT - 1)
\* can sample.
Grid == {<<x, y>> : x \in 0 .. (GRID_WIDTH - 1), y \in 0 .. (GRID_HEIGHT - 1)}

Cells(b) == {b[i] : i \in 1 .. Len(b)}

----------------------------------------------------------------------------
\* Snake

\* Snake.get_head: the last element of the body.
get_head(b) == b[Len(b)]

\* Snake.reset: INITIAL_SNAKE_LENGTH cells of the centre row, tail first, the head
\* on the centre cell.
ResetBody ==
    [k \in 1 .. INITIAL_SNAKE_LENGTH |->
        <<(GRID_WIDTH \div 2) - (INITIAL_SNAKE_LENGTH - k), GRID_HEIGHT \div 2>>]

\* A new head two cells ahead.
new_head_double(b, d) ==
    <<get_head(b)[1] + 2 * Delta(d)[1], get_head(b)[2] + 2 * Delta(d)[2]>>

\* The cell Snake.move appends: head + delta(direction).
new_head(b, d) == <<get_head(b)[1] + Delta(d)[1], get_head(b)[2] + Delta(d)[2]>>

\* A move that always pops the tail (growth lost).
move_pop_always(b, d, gp) == Tail(Append(b, new_head(b, d)))

\* A move that never pops the tail (growth applied at once).
move_keep_tail(b, d, gp) == Append(b, new_head(b, d))

\* Snake.move on the body: append the new head, then pop the tail unless growth
\* is pending.
move(b, d, gp) ==
    IF gp THEN Append(b, new_head(b, d)) ELSE Tail(Append(b, new_head(b, d)))

\* A turn that accepts every request.
change_direction_any(cur, new) == new

\* Snake.change_direction: the direction afterwards.
change_direction(cur, new) == IF new # Opposite(cur) THEN new ELSE cur

\* A collision check whose right and bottom walls are one cell too far.
check_collision_off_by_one(b) ==
    \/ get_head(b)[1] < 0
    \/ get_head(b)[1] > GRID_WIDTH
    \/ get_head(b)[2] < 0
    \/ get_head(b)[2] > GRID_HEIGHT
    \/ \E i \in 1 .. (Len(b) - 1) : b[i] = get_head(b)

\* A collision check that forgets the walls.
check_collision_body_only(b) ==
    \E i \in 1 .. (Len(b) - 1) : b[i] = get_head(b)

\* A collision check that forgets the body.
check_collision_walls_only(b) ==
    \/ get_head(b)[1] < 0
    \/ get_head(b)[1] >= GRID_WIDTH
    \/ get_head(b)[2] < 0
    \/ get_head(b)[2] >= GRID_HEIGHT

\* Snake.check_collision: the head is off the grid, or on a body cell other than
\* the head's own slot.
check_collision(b) ==
    \/ get_head(b)[1] < 0
    \/ get_head(b)[1] >= GRID_WIDTH
    \/ get_head(b)[2] < 0
    \/ get_head(b)[2] >= GRID_HEIGHT
    \/ \E i \in 1 .. (Len(b) - 1) : b[i] = get_head(b)

----------------------------------------------------------------------------
\* Food

\* The cells Food.spawn(snake_body) can leave its loop with.
FreeCells(b) == Grid \ Cells(b)

----------------------------------------------------------------------------
\* Game

\* A high-score rule that records the last run instead of the best.
NewHighScoreLast(hs, s) == s

\* Game.update's high-score rule on a collision.
NewHighScore(hs, s) == IF s > hs THEN s ELSE hs

\* An eating rule that awards one point.
EatScoreOne(s) == s + 1

\* Game.update's score rule on eating: score += 10.
EatScore(s) == s + FOOD_POINTS

\* Game.__init__: Snake() resets the snake; Food() spawns with no snake_body, so
\* on any cell of the grid.
Init ==
    /\ body = ResetBody
    /\ direction = "RIGHT"
    /\ grow_pending = FALSE
    /\ food \in Grid
    /\ score = 0
    /\ high_score = 0
    /\ game_over = FALSE
    /\ running = TRUE
    /\ pc = "events"
    /\ outcome = "init"
    /\ idle_ticks = 0

\* A reset that also forgets the session's best.
reset_game_clear_high ==
    /\ body' = ResetBody
    /\ direction' = "RIGHT"
    /\ grow_pending' = FALSE
    /\ food' \in FreeCells(ResetBody)
    /\ score' = 0
    /\ high_score' = 0
    /\ game_over' = FALSE
    /\ outcome' = "reset"
    /\ UNCHANGED running

\* Game.reset_game, called by handle_events for SPACE / RETURN in game over.
reset_game ==
    /\ body' = ResetBody
    /\ direction' = "RIGHT"
    /\ grow_pending' = FALSE
    /\ food' \in FreeCells(ResetBody)
    /\ score' = 0
    /\ game_over' = FALSE
    /\ outcome' = "reset"
    /\ UNCHANGED <<high_score, running>>

\* A direction key handled without looking at game_over.
KeyDirectionAlways(d) ==
    /\ pc = "events"
    /\ direction' = change_direction(direction, d)
    /\ outcome' = "turn"
    /\ pc' = pc
    /\ UNCHANGED <<body, grow_pending, food, score, high_score, game_over, running>>

\* One pass of the for loop of handle_events over a KEYDOWN of a direction key
\* (arrows or WASD).
KeyDirection(d) ==
    /\ pc = "events"
    /\ IF game_over
         THEN /\ outcome' = "key_ignored"
              /\ UNCHANGED <<gameState, running>>
         ELSE /\ direction' = change_direction(direction, d)
              /\ outcome' = "turn"
              /\ UNCHANGED <<body, grow_pending, food, score, high_score,
                             game_over, running>>
    /\ pc' = pc

\* A restart key handled without looking at game_over.
KeyRestartAlways ==
    /\ pc = "events"
    /\ reset_game
    /\ pc' = pc

\* One pass over a KEYDOWN of SPACE or RETURN.
KeyRestart ==
    /\ pc = "events"
    /\ IF game_over
         THEN reset_game
         ELSE /\ outcome' = "key_ignored"
              /\ UNCHANGED <<gameState, running>>
    /\ pc' = pc

\* One pass over a QUIT event or a KEYDOWN of ESCAPE.
KeyQuit ==
    /\ pc = "events"
    /\ running' = FALSE
    /\ outcome' = "quit"
    /\ pc' = pc
    /\ UNCHANGED gameState

\* The for loop of handle_events has consumed pygame.event.get().
EndEvents ==
    /\ pc = "events"
    /\ pc' = "update"
    /\ UNCHANGED <<gameState, running, outcome>>

\* The model's limit on a run: the tick that would eat food number MaxFood + 1 is
\* not taken.
WithinBounds ==
    \/ game_over
    \/ score < MaxFood * FOOD_POINTS
    \/ check_collision(move(body, direction, grow_pending))
    \/ get_head(move(body, direction, grow_pending)) # food

\* Game.update.
update ==
    /\ pc = "update"
    /\ IF game_over
         THEN /\ pc' = "draw"
              /\ outcome' = "tick_noop"
              /\ UNCHANGED gameState
         ELSE LET moved == move(body, direction, grow_pending) IN
              /\ body' = moved
              /\ IF check_collision(moved)
                   THEN /\ game_over' = TRUE
                        /\ high_score' = NewHighScore(high_score, score)
                        /\ grow_pending' = FALSE
                        /\ pc' = "draw"
                        /\ outcome' = "tick_collision"
                        /\ UNCHANGED <<food, score>>
                   ELSE IF get_head(moved) = food
                          THEN /\ grow_pending' = TRUE
                               /\ score' = EatScore(score)
                               /\ IF FreeCells(moved) # {}
                                    THEN /\ food' \in FreeCells(moved)
                                         /\ pc' = "draw"
                                    ELSE /\ food' = food
                                         /\ pc' = "spawn"
                               /\ outcome' = "tick_eat"
                               /\ UNCHANGED <<high_score, game_over>>
                          ELSE /\ grow_pending' = FALSE
                               /\ pc' = "draw"
                               /\ outcome' = "tick_move"
                               /\ UNCHANGED <<food, score, high_score, game_over>>
    /\ UNCHANGED <<direction, running>>

\* Game.update within the limit of MaxFood.
Tick == WithinBounds /\ update

\* One pass of the while loop of Food.spawn that samples an occupied cell: the
\* loop goes round again.  It is reached with the whole grid occupied, where every
\* pass is this one: update never returns.
SpawnRetry ==
    /\ pc = "spawn"
    /\ \E c \in Grid : c \in Cells(body)
    /\ UNCHANGED vars

\* Game.draw and clock.tick: nothing of the state changes; then the loop test.
Draw ==
    /\ pc = "draw"
    /\ pc' = IF running THEN "events" ELSE "done"
    /\ UNCHANGED <<gameState, running, outcome>>

\* Game.run, runs of at most MaxFood food items: each pass of the for loop of
\* handle_events, the end of that loop, update, draw.  No run of it fills the
\* board, so Food.spawn always returns.
Next ==
    \/ (\E d \in Directions : KeyDirection(d)) /\ UNCHANGED idle_ticks
    \/ KeyRestart /\ UNCHANGED idle_ticks
    \/ KeyQuit /\ UNCHANGED idle_ticks
    \/ EndEvents /\ UNCHANGED idle_ticks
    \/ Tick /\ UNCHANGED idle_ticks
    \/ Draw /\ UNCHANGED idle_ticks

Spec == Init /\ [][Next]_vars

\* Game.run with no limit on a run: the snake can fill the board.
NextFull ==
    \/ (\E d \in Directions : KeyDirection(d)) /\ UNCHANGED idle_ticks
    \/ KeyRestart /\ UNCHANGED idle_ticks
    \/ KeyQuit /\ UNCHANGED idle_ticks
    \/ EndEvents /\ UNCHANGED idle_ticks
    \/ update /\ UNCHANGED idle_ticks
    \/ SpawnRetry
    \/ Draw /\ UNCHANGED idle_ticks

SpecFull == Init /\ [][NextFull]_vars

\* The count of idle_ticks: a tick taken in RUNNING adds one; a direction request
\* handled in RUNNING and a reset start it again.
CountIdleTicks ==
    idle_ticks' =
        IF pc = "update" /\ ~game_over THEN idle_ticks + 1
        ELSE IF pc = "events" /\ (direction' # direction \/ outcome' \in {"turn", "reset"})
               THEN 0
        ELSE idle_ticks

\* Game.run as under Spec, with the RUNNING ticks since the last direction request
\* counted.
NextIdle ==
    \/ (\E d \in Directions : KeyDirection(d)) /\ CountIdleTicks
    \/ KeyRestart /\ CountIdleTicks
    \/ KeyQuit /\ CountIdleTicks
    \/ EndEvents /\ CountIdleTicks
    \/ Tick /\ CountIdleTicks
    \/ Draw /\ CountIdleTicks

SpecIdle == Init /\ [][NextIdle]_vars

----------------------------------------------------------------------------
\* Properties.  These are stated on the variables, before and after a step, not
\* with the operators update is written with.

Max(a, b) == IF a >= b THEN a ELSE b

\* The head of b is off the grid or on another element of b.
Collided(b) ==
    \/ b[Len(b)] \notin Grid
    \/ \E i \in 1 .. (Len(b) - 1) : b[i] = b[Len(b)]

\* The step is a tick taken in RUNNING.
RunningTick == pc = "update" /\ ~game_over

\* The step is a tick taken in RUNNING that moves the head onto the food without a
\* collision.
EatingTick == RunningTick /\ ~Collided(body') /\ body'[Len(body')] = food

\* C1 (as claimed): a RUNNING tick that moves the head onto the food without a
\* collision leaves the body one cell longer at the end of that same tick: the
\* new head appended and the tail kept.
C1_GrowsInSameTick ==
    [][EatingTick => body' = Append(body, food)]_vars

\* C1 (amended): a RUNNING tick that moves the head onto the food without a
\* collision appends the new head and still removes the tail, unless a growth was
\* already pending, so this food does not lengthen the body in that tick; it
\* sets grow_pending, and the next RUNNING tick keeps the tail: the body grows by
\* one cell one tick later.
C1_GrowthDeferred ==
    /\ [][EatingTick =>
            /\ grow_pending'
            /\ body' = IF grow_pending
                         THEN Append(body, food)
                         ELSE SubSeq(Append(body, food), 2, Len(body) + 1)]_vars
    /\ [][(RunningTick /\ grow_pending) =>
            /\ Len(body') = Len(body) + 1
            /\ SubSeq(body', 1, Len(body)) = body]_vars

\* C1 witness: one food eaten by a snake of the initial length, and the tick after
\* it has made the body one cell longer.
C1_Witness ==
    /\ score = FOOD_POINTS
    /\ Len(body) = INITIAL_SNAKE_LENGTH + 1
    /\ ~grow_pending
    /\ outcome = "tick_move"

\* C2: a tick adds exactly 10 to score if it is taken in RUNNING, does not collide
\* and puts the head on the food, and leaves score unchanged otherwise; score is
\* always a non-negative multiple of 10.
C2_ScoreRule ==
    /\ [](score >= 0 /\ score % 10 = 0)
    /\ [][pc = "update" =>
            IF EatingTick THEN score' = score + 10 ELSE score' = score]_vars

\* C2 witness: a second food has just been eaten in one run.
C2_Witness == outcome = "tick_eat" /\ score = 20 /\ ~game_over

\* C3: a RUNNING tick whose move puts the head off the grid or on another body
\* cell sets GAME_OVER and high_score = max(high_score, score), and eats nothing:
\* score and food are unchanged and grow_pending is not set, also when the new
\* head is on the food.
C3_CollisionEndsRun ==
    [][(RunningTick /\ Collided(body')) =>
         /\ game_over'
         /\ high_score' = Max(high_score, score)
         /\ score' = score
         /\ food' = food
         /\ ~grow_pending']_vars

\* C3 witness: a run has just ended by a collision on the very cell of the food.
C3_Witness ==
    /\ game_over
    /\ outcome = "tick_collision"
    /\ body[Len(body)] = food

C5_ResetState ==
    [][(game_over /\ ~game_over') =>
         /\ Len(body') = 3
         /\ body'[3] = <<GRID_WIDTH \div 2, GRID_HEIGHT \div 2>>
         /\ \A i \in 1 .. 2 : body'[i] = <<body'[i + 1][1] - 1, body'[i + 1][2]>>
         /\ direction' = "RIGHT"
         /\ ~grow_pending'
         /\ score' = 0
         /\ high_score' = high_score]_vars

\* C5 witness: a reset has just been done after a run that scored.
C5_Witness == outcome = "reset" /\ ~game_over /\ high_score > 0 /\ score = 0

\* C6 (as claimed): whatever direction requests are handled between two ticks, no
\* RUNNING tick puts the new head on the cell of the segment directly behind the
\* head.
C6_NoReversal ==
    [][RunningTick => body'[Len(body')] # body[Len(body) - 1]]_vars

\* C7 (as claimed): the food is inside the grid and, in RUNNING, never on a cell of
\* the snake's body: from the spawn at construction on.
C7_FoodOffSnake ==
    /\ food \in Grid
    /\ ~game_over => food \notin {body[i] : i \in 1 .. Len(body)}

\* C8 (as claimed): when food has to respawn with every grid cell under the snake,
\* the respawn gives up and the game is in GAME_OVER; it is not left inside the
\* spawn loop.
C8_BoardFullEndsRun ==
    (outcome = "tick_eat" /\ Grid \subseteq {body[i] : i \in 1 .. Len(body)})
        => (game_over /\ pc # "spawn")

\* C9: high_score changes only in the tick that ends a run, where it becomes
\* max(high_score, score); it never decreases, and in GAME_OVER it is at least
\* score.
C9_HighScore ==
    /\ [](game_over => high_score >= score)
    /\ [][high_score' >= high_score]_vars
    /\ [][high_score' # high_score => (RunningTick /\ game_over')]_vars
    /\ [][(~game_over /\ game_over') => high_score' = Max(high_score, score)]_vars

\* C9 witness: a run has just ended below the session's best, which stands.
C9_Witness ==
    /\ game_over
    /\ outcome = "tick_collision"
    /\ score < high_score

\* C10: phase goes from RUNNING to GAME_OVER only in a tick whose move collides,
\* from GAME_OVER to RUNNING only by the reset command, the reset is done only
\* in GAME_OVER, and nothing else changes phase.
C10_PhaseMachine ==
    /\ [][(~game_over /\ game_over') => (pc = "update" /\ Collided(body'))]_vars
    /\ [][(game_over /\ ~game_over') => (pc = "events" /\ outcome' = "reset")]_vars
    /\ [][(pc = "events" /\ pc' = "events" /\ outcome' = "reset") => game_over]_vars

\* C10 witness: the whole cycle: a run ended, was reset, and the next run ended.
C10_Witness ==
    /\ ~game_over
    /\ high_score > 0
    /\ score > 0
    /\ outcome = "tick_move"

\* The pairs of directions that are each other's reverse.
Reverse == {<<"UP", "DOWN">>, <<"DOWN", "UP">>, <<"LEFT", "RIGHT">>, <<"RIGHT", "LEFT">>}

\* C11: for every heading h and requested direction d, a direction request
\* handled in RUNNING leaves the heading d when d is not the reverse of h and h
\* when it is, and changes nothing else of the game state.
C11_TurnRule ==
    [][\A d \in Directions :
         (KeyDirection(d) /\ ~game_over) =>
             /\ direction' = IF <<direction, d>> \in Reverse THEN direction ELSE d
             /\ UNCHANGED <<body, grow_pending, food, score, high_score,
                            game_over>>]_vars

\* C11 witness: a request to turn DOWN has just been handled and accepted.
C11_Witness ==
    /\ ~game_over
    /\ pc = "events"
    /\ outcome = "turn"
    /\ direction = "DOWN"

\* The displacement of one step in each direction, y growing downwards.
Step(d) ==
    IF d = "UP" THEN <<0, -1>>
    ELSE IF d = "DOWN" THEN <<0, 1>>
    ELSE IF d = "LEFT" THEN <<-1, 0>>
    ELSE <<1, 0>>

\* C12: a frame handles its events, then ticks, then draws; the tick does not touch
\* the heading, and its move displaces the head by the unit step of the heading
\* the frame's direction requests left.
C12_FrameOrder ==
    /\ [][pc = "events" => pc' \in {"events", "update"}]_vars
    /\ [][pc = "update" => (pc' \in {"draw", "spawn"} /\ direction' = direction)]_vars
    /\ [][pc = "draw" => pc' \in {"events", "done"}]_vars
    /\ [][RunningTick =>
            /\ body'[Len(body')][1] = body[Len(body)][1] + Step(direction)[1]
            /\ body'[Len(body')][2] = body[Len(body)][2] + Step(direction)[2]]_vars

\* C12 witness: the first frame turned UP and its own tick moved the head up from
\* the centre cell.
C12_Witness ==
    /\ outcome = "tick_move"
    /\ direction = "UP"
    /\ body = <<<<(GRID_WIDTH \div 2) - 1, GRID_HEIGHT \div 2>>,
                <<GRID_WIDTH \div 2, GRID_HEIGHT \div 2>>,
                <<GRID_WIDTH \div 2, (GRID_HEIGHT \div 2) - 1>>>>

\* The cell one step of the heading ahead of the head.
Ahead ==
    <<body[Len(body)][1] + Step(direction)[1], body[Len(body)][2] + Step(direction)[2]>>

\* C13 (as claimed): the collision check of a tick sees the pre-move tail cell, so
\* a RUNNING tick whose new head is the cell the tail was on before the move is
\* judged a collision.
C13_TailCellCollides ==
    [][(RunningTick /\ body'[Len(body')] = body[1]) => game_over']_vars

\* C13 (amended): within one tick the order is append the new head, trim the tail
\* unless growth is pending, then check: a RUNNING tick whose new head is the
\* cell the tail was on before the move is a collision exactly when growth was
\* pending, that is when the tail was kept.
C13_TailCellFree ==
    [][(RunningTick /\ body'[Len(body')] = body[1]) =>
         (game_over' <=> grow_pending)]_vars

\* C13 witness: a RUNNING snake with no growth pending is at its tick, the cell
\* ahead of the head is the cell of its tail, and the tick can be taken.
C13_Witness ==
    /\ RunningTick
    /\ ~grow_pending
    /\ Ahead = body[1]
    /\ ENABLED Tick

\* C14: a move appends head + delta(heading) as the last element; with no growth
\* pending it removes the first element and the length is unchanged, with growth
\* pending it removes nothing and the length is one more; the kept cells keep
\* their order, and grow_pending is false afterwards (until the same tick eats).
C14_MoveRule ==
    [][RunningTick =>
         /\ body' = IF grow_pending
                      THEN body \o <<Ahead>>
                      ELSE SubSeq(body, 2, Len(body)) \o <<Ahead>>
         /\ Len(body') = IF grow_pending THEN Len(body) + 1 ELSE Len(body)
         /\ (~EatingTick => ~grow_pending')]_vars

\* C14 witness: two foods eaten and both growths made: five cells, none pending.
C14_Witness ==
    /\ Len(body) = INITIAL_SNAKE_LENGTH + 2
    /\ ~grow_pending
    /\ score = 20
    /\ outcome = "tick_move"

\* C15: in RUNNING the body's cells are pairwise distinct and inside the grid.
C15_BodyDistinctInGrid ==
    ~game_over =>
        /\ \A i, j \in 1 .. Len(body) : i # j => body[i] # body[j]
        /\ \A i \in 1 .. Len(body) :
               /\ body[i][1] >= 0 /\ body[i][1] < GRID_WIDTH
               /\ body[i][2] >= 0 /\ body[i][2] < GRID_HEIGHT

\* C15 witness: a move without collision has left a four-cell snake curled up,
\* its head next to its tail.
C15_Witness ==
    /\ ~game_over
    /\ outcome = "tick_move"
    /\ Len(body) = 4
    /\ \E d \in Directions :
           body[1] = <<body[4][1] + Step(d)[1], body[4][2] + Step(d)[2]>>

\* C16: the collision check of a tick says collision exactly when the head is
\* outside [0,width) x [0,height) or on another element of the body.
C16_CollisionIff ==
    [][RunningTick =>
         (game_over' <=>
            \/ body'[Len(body')][1] < 0 \/ body'[Len(body')][1] >= GRID_WIDTH
            \/ body'[Len(body')][2] < 0 \/ body'[Len(body')][2] >= GRID_HEIGHT
            \/ \E i \in 1 .. (Len(body') - 1) : body'[i] = body'[Len(body')])]_vars

\* C16 witness: a run has ended with the head inside the grid, on its own body.
C16_Witness ==
    /\ game_over
    /\ outcome = "tick_collision"
    /\ body[Len(body)] \in Grid
    /\ Len(body) >= 4

\* C17: the length, counting a pending segment, is the initial length plus the
\* food eaten in the run: len(body) + (1 if grow_pending else 0) = 3 + score / 10.
C17_LengthAccountsForFood ==
    10 * (Len(body) + (IF grow_pending THEN 1 ELSE 0) - 3) = score

\* C17 witness: the tick that made the first growth ate the second food.
C17_Witness ==
    /\ outcome = "tick_eat"
    /\ grow_pending
    /\ Len(body) = 4
    /\ score = 20

\* C18: in RUNNING and in GAME_OVER the body is a path: consecutive elements differ
\* by one unit step in one coordinate; and it has at least initial_length cells.
C18_BodyIsPath ==
    /\ Len(body) >= 3
    /\ \A i \in 1 .. (Len(body) - 1) :
           \/ /\ body[i + 1][1] = body[i][1]
              /\ body[i + 1][2] - body[i][2] \in {-1, 1}
           \/ /\ body[i + 1][2] = body[i][2]
              /\ body[i + 1][1] - body[i][1] \in {-1, 1}

\* C18 witness: a run has ended with the head through a wall, off the grid.
C18_Witness ==
    /\ game_over
    /\ outcome = "tick_collision"
    /\ body[Len(body)] \notin Grid

\* The longer side of the grid, in cells.
MaxSide == IF GRID_WIDTH >= GRID_HEIGHT THEN GRID_WIDTH ELSE GRID_HEIGHT

\* C19: a run left alone ends: a RUNNING snake has taken fewer than
\* max(width, height) ticks since a direction request was last handled, so with
\* no further request the tick number max(width, height) at the latest has put
\* the game in GAME_OVER.
C19_RunEndsWhenLeftAlone ==
    /\ idle_ticks <= MaxSide
    /\ ~game_over => idle_ticks < MaxSide

\* C19 witness: a run was left alone for the full max(width, height) ticks and the
\* last of them ended it.
C19_Witness ==
    /\ game_over
    /\ outcome = "tick_collision"
    /\ idle_ticks = MaxSide

====
